---- MODULE Spec2Model ----
(***************************************************************************)
(* Model of src/extension/popup.js: the click handler of the "extractBtn"  *)
(* control.  One handler invocation is created per activation; it runs     *)
(* synchronously up to the fetch call, is suspended at `await fetch(...)`, *)
(* is suspended a second time at `await response.json()`, and ends with a  *)
(* single assignment to resultsDiv.innerHTML (empty message, table, or the *)
(* error message of the catch branch).                                     *)
(*                                                                         *)
(* Strings that the code builds by concatenation (the markup, the JSON     *)
(* request body) are sequences of tokens, concatenated with \o.            *)
(***************************************************************************)
EXTENDS Integers, Sequences, FiniteSets, TLC

VARIABLES
    notesField,   \* document.getElementById("notes").value
    results,      \* document.getElementById("results").innerHTML
    inv,          \* the handler invocations, in activation order
    sent,         \* number of POST requests handed to fetch so far
    console,      \* what console.error has logged, in order
    writer        \* the invocation whose assignment `results` holds (0: none)

vars == <<notesField, results, inv, sent, console, writer>>

----------------------------------------------------------------------------
(* Bounds *)

MaxClicks == 2      \* activations of the control in one behaviour
MaxItems == 2       \* length of an items array in a response

----------------------------------------------------------------------------
(* Values of the text field: strings as sequences of characters.  The set  *)
(* holds the empty string and strings with the characters JSON.stringify   *)
(* has to escape (quote, backslash, newline).                              *)

QUOTE == "\""
BSLASH == "\\"
NEWLINE == "\n"

NotesVals == { <<>>, <<BSLASH, "n", QUOTE, NEWLINE>> }

----------------------------------------------------------------------------
(* JSON.stringify({ notes })                                               *)

\* variant: the escaping is left out
EscapeCharRaw(c) == <<c>>

EscapeChar(c) ==
    IF c = QUOTE THEN <<BSLASH, QUOTE>>
    ELSE IF c = BSLASH THEN <<BSLASH, BSLASH>>
    ELSE IF c = NEWLINE THEN <<BSLASH, "n">>
    ELSE <<c>>

RECURSIVE EscapeString(_)
EscapeString(s) ==
    IF s = <<>> THEN <<>>
    ELSE EscapeChar(Head(s)) \o EscapeString(Tail(s))

QuoteString(s) == <<QUOTE>> \o EscapeString(s) \o <<QUOTE>>

Stringify(notes) == <<"{">> \o QuoteString(<<"n","o","t","e","s">>) \o <<":">>
                        \o QuoteString(notes) \o <<"}">>

----------------------------------------------------------------------------
(* The request handed to fetch (lines 8-12): the POST body.  `seen` records *)
(* the content of the results region at the moment fetch was called.       *)

NoRequest == [body |-> <<>>, seen |-> <<>>]

Fetch(body, region) == [body |-> body, seen |-> region]

----------------------------------------------------------------------------
(* Responses.  A response is a status and a body.  A body either fails to  *)
(* parse as JSON (t = "invalid") or parses to a value `data`:              *)
(*   t = "null"  the JSON value null                                       *)
(*   t = "num"   a JSON number (data.items reads as undefined)             *)
(*   t = "obj"   a JSON object whose `items` member is `items`             *)
(* `items` is a JSON value or undefined:                                   *)
(*   t = "undefined" | "null" | "num" | "str" | "obj" | "arr"              *)
(*   len: the string's length (t = "str"), or the object's own `length`    *)
(*        member (t = "obj"; -1: the object has none); unused otherwise    *)
(*   elems: the array's elements (t = "arr")                               *)
(* An element is null or an object; a member of the object is a string, or *)
(* null, or absent (undefined).                                            *)

Undefined == [t |-> "undefined", s |-> ""]
Null == [t |-> "null", s |-> ""]
Str(s) == [t |-> "str", s |-> s]

ItemObj(a, b, c) == [t |-> "obj", action |-> a, assignee |-> b, deadline |-> c]
ItemNull == [t |-> "null", action |-> Undefined, assignee |-> Undefined,
             deadline |-> Undefined]

ItemShip == ItemObj(Str("Ship report"), Str("Alice"), Str("2024-01-01"))
ItemCall == ItemObj(Str("Call Bob"), Null, Undefined)

\* elements that are objects
ItemVals == {ItemShip, ItemCall}

ItemsOf(t, len, elems) == [t |-> t, len |-> len, elems |-> elems]

\* arrays of objects, and arrays with a null element (alone, and after an
\* element that renders)
ItemArrays ==
    UNION {[1..k -> ItemVals] : k \in 0..MaxItems}
    \cup {<<ItemNull>>, <<ItemShip, ItemNull>>}

ItemsVals ==
    { ItemsOf("undefined", -1, <<>>),      \* {}
      ItemsOf("num", -1, <<>>),            \* {"items": 5}
      ItemsOf("str", 0, <<>>),             \* {"items": ""}
      ItemsOf("str", 2, <<>>),             \* {"items": "ab"}
      ItemsOf("obj", 0, <<>>) }            \* {"items": {"length": 0}}
    \cup {ItemsOf("arr", -1, a) : a \in ItemArrays}

BodyOf(t, items) == [t |-> t, items |-> items]

NoItems == ItemsOf("undefined", -1, <<>>)
NoBody == BodyOf("none", NoItems)
InvalidBody == BodyOf("invalid", NoItems)

Bodies ==
    { InvalidBody, BodyOf("null", NoItems), BodyOf("num", NoItems) }
    \cup {BodyOf("obj", i) : i \in ItemsVals}

\* bodies sent along with a non-success status
ErrorBodies ==
    { InvalidBody,
      BodyOf("obj", ItemsOf("arr", -1, <<ItemShip>>)) }

Statuses == {200, 500}

\* variant: the upper end of the success range is not checked
OkAtLeast200(status) == status >= 200

\* response.ok
Ok(status) == status >= 200 /\ status <= 299

----------------------------------------------------------------------------
(* Markup *)

ProcessingHtml == <<"<p>", "Processing...", "</p>">>
EmptyHtml == <<"<p>", "No action items found.", "</p>">>
ErrorHtml == <<"<p style='color:red;'>",
               "Cannot reach Flask server. Make sure it is running.", "</p>">>

TableHead == <<"<table>", "<tr>", "<th>", "Action", "</th>",
               "<th>", "Assignee", "</th>", "<th>", "Deadline", "</th>",
               "</tr>">>
TableEnd == <<"</table>">>

WS == "\n "       \* the line break and indentation inside the row template

\* `${v}`: conversion of a member's value by a template literal
TemplateString(v) ==
    CASE v.t = "str" -> v.s
      [] v.t = "null" -> "null"
      [] v.t = "undefined" -> "undefined"

\* variant: the last two columns are swapped
RowHtmlSwapped(item) ==
    <<"<tr>", WS, "<td>", TemplateString(item.action), "</td>",
              WS, "<td>", TemplateString(item.deadline), "</td>",
              WS, "<td>", TemplateString(item.assignee), "</td>",
              WS, "</tr>">>

\* lines 27-31: the markup appended for one item
RowHtml(item) ==
    <<"<tr>", WS, "<td>", TemplateString(item.action), "</td>",
              WS, "<td>", TemplateString(item.assignee), "</td>",
              WS, "<td>", TemplateString(item.deadline), "</td>",
              WS, "</tr>">>

\* variant: += in place of =
AssignAppend(old, html) == old \o html

\* resultsDiv.innerHTML = html
Assign(old, html) == html

----------------------------------------------------------------------------
(* Lines 17-35: what the handler does with the parsed body.  The result is *)
(* either a thrown TypeError or the markup assigned to the results region. *)

Thrown(e) == [threw |-> TRUE, err |-> e, html |-> <<>>]
Markup(h) == [threw |-> FALSE, err |-> "", html |-> h]

\* line 17: data.items throws when data is null
ReadItemsThrows(data) == data.t = "null"
ReadItems(data) == IF data.t = "obj" THEN data.items ELSE NoItems

\* line 19: items.length throws when items is undefined or null; otherwise
\* it is a number, or undefined (-1) when the value has no such member
ReadLengthThrows(items) == items.t \in {"undefined", "null"}
ReadLength(items) ==
    CASE items.t = "arr" -> Len(items.elems)
      [] items.t \in {"str", "obj"} -> items.len
      [] OTHER -> -1

\* line 26: only an array has forEach; calling undefined throws
ForEachThrows(items) == items.t # "arr"

\* lines 27-30: item.action throws when item is null
RowThrows(item) == item.t = "null"

\* lines 26-32: the forEach loop over items[from..], appending to html
RECURSIVE ForEachRow(_, _, _)
ForEachRow(elems, from, html) ==
    IF from > Len(elems) THEN Markup(html)
    ELSE IF RowThrows(elems[from]) THEN Thrown("TypeError")
    ELSE ForEachRow(elems, from + 1, html \o RowHtml(elems[from]))

\* lines 24-33
TableHtml(items) ==
    IF ForEachThrows(items) THEN Thrown("TypeError")
    ELSE LET rows == ForEachRow(items.elems, 1, TableHead)
         IN  IF rows.threw THEN rows ELSE Markup(rows.html \o TableEnd)

\* variant: the test for an empty list is left out
RenderAlwaysTable(data) ==
    IF ReadItemsThrows(data) THEN Thrown("TypeError")
    ELSE LET items == ReadItems(data)
         IN  IF ReadLengthThrows(items) THEN Thrown("TypeError")
             ELSE TableHtml(items)

\* lines 17-35
Render(data) ==
    IF ReadItemsThrows(data) THEN Thrown("TypeError")
    ELSE LET items == ReadItems(data)
         IN  IF ReadLengthThrows(items) THEN Thrown("TypeError")
             ELSE IF ReadLength(items) = 0 THEN Markup(EmptyHtml)
             ELSE TableHtml(items)

----------------------------------------------------------------------------
(* Variant of the synchronous part: the placeholder is written after the   *)
(* fetch call.                                                             *)

PrologueFetchFirst(region, field, count) ==
    LET notes == field
    IN  [region |-> Assign(region, ProcessingHtml),
         req |-> Fetch(Stringify(notes), region),
         sent |-> count + 1]

(* Lines 2-12: the synchronous part of the handler, up to the fetch call.  *)

Prologue(region, field, count) ==
    LET notes == field
        shown == Assign(region, ProcessingHtml)
    IN  [region |-> shown,
         req |-> Fetch(Stringify(notes), shown),
         sent |-> count + 1]

(* Variant of the catch branch: the request is sent again. *)

CatchRetry(region, log, count, err) ==
    [region |-> Assign(region, ErrorHtml),
     log |-> Append(log, err),
     sent |-> count + 1]

(* Variant of the catch branch: the message names the error. *)

CatchDetail(region, log, count, err) ==
    [region |-> Assign(region, <<"<p style='color:red;'>", err, "</p>">>),
     log |-> Append(log, err),
     sent |-> count]

(* Variant of the catch branch: the error is logged and nothing is shown. *)

CatchSilent(region, log, count, err) ==
    [region |-> region,
     log |-> Append(log, err),
     sent |-> count]

(* Lines 36-40: the catch branch. *)

Catch(region, log, count, err) ==
    [region |-> Assign(region, ErrorHtml),
     log |-> Append(log, err),
     sent |-> count]

----------------------------------------------------------------------------
(* State *)

(* An invocation of the handler.                                           *)
(*   pc      "fetch": suspended at line 8; "json": suspended at line 16;   *)
(*           "Rendered": returned after line 20 or 35; "ErrorShown":       *)
(*           returned after line 39                                        *)
(*   req     the request in flight (NoRequest once it is answered)         *)
(*   status  the status of the response received (0: none)                 *)
(*   body    the body of the response received (NoBody: none)              *)
(*   err     the error the catch branch caught ("": none)                  *)
(*   shown   the value of this invocation's latest assignment to           *)
(*           resultsDiv.innerHTML                                          *)
(*   alone   no other invocation was suspended while this one was          *)
(*   writes  the number of assignments to resultsDiv.innerHTML this        *)
(*           invocation has made                                           *)
Invocation(pc, req, status, body, err, shown, alone, writes) ==
    [pc |-> pc, req |-> req, status |-> status, body |-> body, err |-> err,
     shown |-> shown, alone |-> alone, writes |-> writes]

Suspended(i) == inv[i].pc \in {"fetch", "json"}
Settled(i) == inv[i].pc \in {"Rendered", "ErrorShown"}

Init ==
    /\ notesField \in NotesVals
    /\ results = <<>>
    /\ inv = <<>>
    /\ sent = 0
    /\ console = <<>>
    /\ writer = 0

\* the user edits the text field
EditNotes ==
    /\ \E v \in NotesVals : v # notesField /\ notesField' = v
    /\ UNCHANGED <<results, inv, sent, console, writer>>

\* variant: the control stays disabled while the error message is shown
ClickUnlessError ==
    /\ Len(inv) < MaxClicks
    /\ results # ErrorHtml
    /\ LET p == Prologue(results, notesField, sent)
           overlap == \E i \in 1..Len(inv) : Suspended(i)
       IN  /\ results' = p.region
           /\ sent' = p.sent
           /\ inv' = Append([i \in 1..Len(inv) |->
                               IF Suspended(i)
                               THEN [inv[i] EXCEPT !.alone = FALSE]
                               ELSE inv[i]],
                            Invocation("fetch", p.req, 0, NoBody, "",
                                       p.region, ~overlap, 1))
    /\ writer' = Len(inv) + 1
    /\ UNCHANGED <<notesField, console>>

\* variant: a busy flag; the control is ignored while a request is outstanding
ClickWhenIdle ==
    /\ Len(inv) < MaxClicks
    /\ \A i \in 1..Len(inv) : ~Suspended(i)
    /\ LET p == Prologue(results, notesField, sent)
           overlap == \E i \in 1..Len(inv) : Suspended(i)
       IN  /\ results' = p.region
           /\ sent' = p.sent
           /\ inv' = Append([i \in 1..Len(inv) |->
                               IF Suspended(i)
                               THEN [inv[i] EXCEPT !.alone = FALSE]
                               ELSE inv[i]],
                            Invocation("fetch", p.req, 0, NoBody, "",
                                       p.region, ~overlap, 1))
    /\ writer' = Len(inv) + 1
    /\ UNCHANGED <<notesField, console>>

\* variant: the handler clears the text field after reading it
ClickClearsField ==
    /\ Len(inv) < MaxClicks
    /\ LET p == Prologue(results, notesField, sent)
           overlap == \E i \in 1..Len(inv) : Suspended(i)
       IN  /\ results' = p.region
           /\ sent' = p.sent
           /\ inv' = Append([i \in 1..Len(inv) |->
                               IF Suspended(i)
                               THEN [inv[i] EXCEPT !.alone = FALSE]
                               ELSE inv[i]],
                            Invocation("fetch", p.req, 0, NoBody, "",
                                       p.region, ~overlap, 1))
    /\ writer' = Len(inv) + 1
    /\ notesField' = <<>>
    /\ UNCHANGED console

\* the user activates the control: lines 1-12, up to the first await
Click ==
    /\ Len(inv) < MaxClicks
    /\ LET p == Prologue(results, notesField, sent)
           overlap == \E i \in 1..Len(inv) : Suspended(i)
       IN  /\ results' = p.region
           /\ sent' = p.sent
           /\ inv' = Append([i \in 1..Len(inv) |->
                               IF Suspended(i)
                               THEN [inv[i] EXCEPT !.alone = FALSE]
                               ELSE inv[i]],
                            Invocation("fetch", p.req, 0, NoBody, "",
                                       p.region, ~overlap, 1))
    /\ writer' = Len(inv) + 1
    /\ UNCHANGED <<notesField, console>>

\* variant: the catch branch of an invocation that is no longer the latest
\* activation leaves the results region alone
FailUnlessStale(i, status, body, err) ==
    LET c == Catch(results, console, sent, err)
        latest == i = Len(inv)
    IN  /\ results' = IF latest THEN c.region ELSE results
        /\ console' = c.log
        /\ sent' = c.sent
        /\ inv' = [inv EXCEPT ![i] =
                       Invocation("ErrorShown", NoRequest, status, body, err,
                                  IF latest THEN c.region ELSE inv[i].shown,
                                  inv[i].alone,
                                  IF latest THEN inv[i].writes + 1
                                  ELSE inv[i].writes)]
        /\ writer' = IF latest THEN i ELSE writer
        /\ UNCHANGED notesField

\* invocation i ends in the catch branch with error err
Fail(i, status, body, err) ==
    LET c == Catch(results, console, sent, err)
    IN  /\ results' = c.region
        /\ console' = c.log
        /\ sent' = c.sent
        /\ inv' = [inv EXCEPT ![i] =
                       Invocation("ErrorShown", NoRequest, status, body, err,
                                  c.region, inv[i].alone,
                                  inv[i].writes + 1)]
        /\ writer' = i
        /\ UNCHANGED notesField

\* the fetch promise of invocation i rejects: network-level failure
FetchReject(i) ==
    /\ inv[i].pc = "fetch"
    /\ Fail(i, 0, NoBody, "NetworkError")

\* variant: on a non-success status the handler waits to retry, for a timer
\* that nothing arms
FetchResolveBackoff(i) ==
    /\ inv[i].pc = "fetch"
    /\ \E status \in Statuses :
          /\ inv' = [inv EXCEPT ![i].pc = IF Ok(status) THEN "json"
                                                        ELSE "backoff",
                                ![i].req = NoRequest,
                                ![i].status = status]
          /\ UNCHANGED <<notesField, results, sent, console, writer>>

\* the fetch promise of invocation i resolves with a response: line 14,
\* then the call of response.json() and the second await.  The body of a
\* success response is still arriving; it is known when json() settles.
FetchResolve(i) ==
    /\ inv[i].pc = "fetch"
    /\ \E status \in Statuses :
          IF ~Ok(status)
          THEN \E body \in ErrorBodies : Fail(i, status, body, "ServerError")
          ELSE /\ inv' = [inv EXCEPT ![i].pc = "json", ![i].req = NoRequest,
                                     ![i].status = status]
               /\ UNCHANGED <<notesField, results, sent, console, writer>>

\* the json promise of invocation i rejects: the body is not JSON
JsonReject(i) ==
    /\ inv[i].pc = "json"
    /\ Fail(i, inv[i].status, InvalidBody, "SyntaxError")

\* variant: the return after the empty-state message (line 21) is left out,
\* so the handler goes on to build and assign a table
JsonResolveNoReturn(i) ==
    /\ inv[i].pc = "json"
    /\ \E data \in Bodies \ {InvalidBody} :
       LET r == Render(data)
       IN  IF r.threw
           THEN Fail(i, inv[i].status, data, r.err)
           ELSE LET first == Assign(results, r.html)
                    fell == r.html = EmptyHtml
                    shown == IF fell THEN Assign(first, TableHead \o TableEnd)
                             ELSE first
                IN  /\ results' = shown
                    /\ inv' = [inv EXCEPT ![i].pc = "Rendered",
                                          ![i].body = data,
                                          ![i].shown = shown,
                                          ![i].writes =
                                              IF fell THEN @ + 2 ELSE @ + 1]
                    /\ writer' = i
                    /\ UNCHANGED <<notesField, sent, console>>

\* the json promise of invocation i resolves with the parsed body: lines 17-35
JsonResolve(i) ==
    /\ inv[i].pc = "json"
    /\ \E data \in Bodies \ {InvalidBody} :
       LET r == Render(data)
       IN  IF r.threw
           THEN Fail(i, inv[i].status, data, r.err)
           ELSE LET shown == Assign(results, r.html)
                IN  /\ results' = shown
                    /\ inv' = [inv EXCEPT ![i].pc = "Rendered",
                                          ![i].body = data,
                                          ![i].shown = shown,
                                          ![i].writes = @ + 1]
                    /\ writer' = i
                    /\ UNCHANGED <<notesField, sent, console>>

Next ==
    \/ EditNotes
    \/ Click
    \/ \E i \in 1..Len(inv) : FetchReject(i)
    \/ \E i \in 1..Len(inv) : FetchResolve(i)
    \/ \E i \in 1..Len(inv) : JsonReject(i)
    \/ \E i \in 1..Len(inv) : JsonResolve(i)

Spec == Init /\ [][Next]_vars

\* the transport settles the promise invocation i is suspended on
Settle(i) ==
    /\ i <= Len(inv)
    /\ FetchReject(i) \/ FetchResolve(i) \/ JsonReject(i) \/ JsonResolve(i)

\* the behaviours in which the transport eventually settles every promise
FairSpec == Spec /\ \A i \in 1..MaxClicks : WF_vars(Settle(i))

----------------------------------------------------------------------------
(* Vocabulary of the properties *)

\* the success range of HTTP statuses
Is2xx(status) == status \in 200..299

\* no table element in the markup
NoTable(html) == \A k \in 1..Len(html) : html[k] # "<table>"

\* the number of occurrences of token tok in html
RECURSIVE Count(_, _)
Count(html, tok) ==
    IF html = <<>> THEN 0
    ELSE (IF Head(html) = tok THEN 1 ELSE 0) + Count(Tail(html), tok)

(* JSON decoding of a request body, as the receiving side does it: the     *)
(* body must be an object with the single member "notes" whose value is a  *)
(* string literal.                                                         *)

UnescapeChar(c) == IF c = "n" THEN NEWLINE ELSE c

\* scan a string literal whose opening quote is at s[from - 1]
RECURSIVE ScanString(_, _, _)
ScanString(s, from, acc) ==
    IF from > Len(s) THEN [ok |-> FALSE, val |-> acc, next |-> from]
    ELSE IF s[from] = QUOTE THEN [ok |-> TRUE, val |-> acc, next |-> from + 1]
    ELSE IF s[from] = NEWLINE THEN [ok |-> FALSE, val |-> acc, next |-> from]
    ELSE IF s[from] = BSLASH
         THEN IF from + 1 > Len(s) \/ s[from + 1] \notin {QUOTE, BSLASH, "n"}
              THEN [ok |-> FALSE, val |-> acc, next |-> from]
              ELSE ScanString(s, from + 2,
                              Append(acc, UnescapeChar(s[from + 1])))
    ELSE ScanString(s, from + 1, Append(acc, s[from]))

Undecodable == [ok |-> FALSE, notes |-> <<>>]

JsonDecode(s) ==
    IF Len(s) < 2 \/ s[1] # "{" \/ s[2] # QUOTE THEN Undecodable
    ELSE LET key == ScanString(s, 3, <<>>)
         IN  IF ~key.ok \/ key.val # <<"n", "o", "t", "e", "s">>
                \/ key.next + 1 > Len(s)
                \/ s[key.next] # ":" \/ s[key.next + 1] # QUOTE
             THEN Undecodable
             ELSE LET v == ScanString(s, key.next + 2, <<>>)
                  IN  IF v.ok /\ v.next = Len(s) /\ s[v.next] = "}"
                      THEN [ok |-> TRUE, notes |-> v.val]
                      ELSE Undecodable

----------------------------------------------------------------------------
(* C1: the number of POST requests sent equals the number of activations   *)
(* of the control, whatever the outcomes of the invocations were: no       *)
(* success, error status, network failure or malformed body adds a request.*)
C1_OneRequestPerActivation == sent = Len(inv)

\* two activations, one ended in the error state and one rendered
C1_Witness ==
    /\ Len(inv) = 2
    /\ sent = 2
    /\ \E i, j \in 1..Len(inv) :
          inv[i].pc = "ErrorShown" /\ inv[j].pc = "Rendered"

(* C2: the body of the request an activation sends decodes to {notes: v},  *)
(* v the value of the text field at that activation (the empty string      *)
(* included), and no later step changes a request in flight.               *)
C2_BodyIsNotesAtActivation ==
    [][ \A i \in 1..Len(inv') :
           IF i > Len(inv)
           THEN /\ inv'[i].pc = "fetch"
                /\ JsonDecode(inv'[i].req.body) =
                       [ok |-> TRUE, notes |-> notesField]
           ELSE (inv[i].pc = "fetch" /\ inv'[i].pc = "fetch")
                    => inv'[i].req = inv[i].req ]_vars

\* a request with empty notes and a request whose notes need escaping are
\* in flight, the second one sent before the field was edited
C2_Witness ==
    /\ Len(inv) = 2
    /\ inv[1].pc = "fetch" /\ inv[2].pc = "fetch"
    /\ JsonDecode(inv[1].req.body) =
           [ok |-> TRUE, notes |-> <<BSLASH, "n", QUOTE, NEWLINE>>]
    /\ JsonDecode(inv[2].req.body) = [ok |-> TRUE, notes |-> <<>>]
    /\ notesField = <<>>

\* the response {"items": []}
EmptyItemsBody == BodyOf("obj", ItemsOf("arr", -1, <<>>))

(* C3: when the results region holds the final assignment of an invocation *)
(* that received a success status and the body {"items": []}, it is        *)
(* exactly the empty-state message and contains no table.                  *)
C3_EmptyItemsShowEmptyMessage ==
    \A i \in 1..Len(inv) :
       (writer = i /\ Is2xx(inv[i].status) /\ inv[i].body = EmptyItemsBody)
          => /\ inv[i].pc = "Rendered"
             /\ results = <<"<p>", "No action items found.", "</p>">>
             /\ NoTable(results)

\* an invocation has just rendered the response {"items": []}
C3_Witness ==
    \E i \in 1..Len(inv) :
       /\ writer = i /\ inv[i].pc = "Rendered"
       /\ inv[i].status = 200 /\ inv[i].body = EmptyItemsBody

\* a non-empty array of objects
IsObjectArray(body) ==
    /\ body.t = "obj"
    /\ body.items.t = "arr"
    /\ Len(body.items.elems) >= 1
    /\ \A k \in 1..Len(body.items.elems) : body.items.elems[k].t = "obj"

\* the token at column col (1..3) of data row k (1..) of a table
Cell(html, k, col) == html[12 + 15 * (k - 1) + 4 * col]

\* cell text c holds member value v: a string member appears verbatim
Holds(c, v) == v.t = "str" => c = v.s

(* C4: when the results region holds the final assignment of an invocation *)
(* that received a success status and a non-empty items array of n         *)
(* objects, it is a table: the header row Action, Assignee, Deadline, then *)
(* exactly n data rows, row k holding the action, assignee and deadline of *)
(* item k in that column order.                                            *)
C4_TableRowsInResponseOrder ==
    \A i \in 1..Len(inv) :
       (writer = i /\ Is2xx(inv[i].status) /\ IsObjectArray(inv[i].body))
          => LET items == inv[i].body.items.elems
                 n == Len(items)
             IN  /\ inv[i].pc = "Rendered"
                 /\ Len(results) = 12 + 15 * n + 1
                 /\ SubSeq(results, 1, 12) =
                       <<"<table>", "<tr>", "<th>", "Action", "</th>",
                         "<th>", "Assignee", "</th>",
                         "<th>", "Deadline", "</th>", "</tr>">>
                 /\ results[Len(results)] = "</table>"
                 /\ Count(results, "<tr>") = n + 1
                 /\ Count(results, "</tr>") = n + 1
                 /\ Count(results, "<td>") = 3 * n
                 /\ \A k \in 1..n :
                       /\ results[12 + 15 * (k - 1) + 1] = "<tr>"
                       /\ results[12 + 15 * k] = "</tr>"
                       /\ Holds(Cell(results, k, 1), items[k].action)
                       /\ Holds(Cell(results, k, 2), items[k].assignee)
                       /\ Holds(Cell(results, k, 3), items[k].deadline)

\* a table of two different items has just been rendered
C4_Witness ==
    \E i \in 1..Len(inv) :
       /\ writer = i /\ inv[i].pc = "Rendered"
       /\ inv[i].body.items.elems = <<ItemCall, ItemShip>>
       /\ Cell(results, 2, 1) = "Ship report"
       /\ Cell(results, 2, 2) = "Alice"
       /\ Cell(results, 2, 3) = "2024-01-01"

(* C5: an invocation that received a status outside the success range is   *)
(* in the error state without its body having been parsed, and when the    *)
(* results region holds its final assignment, that is the fixed error      *)
(* message, with no table, whatever the body was.                          *)
C5_ErrorStatusShowsError ==
    \A i \in 1..Len(inv) :
       (inv[i].status # 0 /\ ~Is2xx(inv[i].status))
          => /\ inv[i].pc = "ErrorShown"
             /\ inv[i].err = "ServerError"
             /\ writer = i =>
                   /\ results = <<"<p style='color:red;'>",
                         "Cannot reach Flask server. Make sure it is running.",
                         "</p>">>
                   /\ NoTable(results)

\* status 500 with a body that would have rendered a table
C5_Witness ==
    \E i \in 1..Len(inv) :
       /\ writer = i /\ inv[i].pc = "ErrorShown"
       /\ inv[i].status = 500
       /\ inv[i].body = BodyOf("obj", ItemsOf("arr", -1, <<ItemShip>>))

\* the three kinds of failure, told apart by what the invocation received
NetworkFailure(i) == inv[i].pc = "ErrorShown" /\ inv[i].status = 0
StatusFailure(i) ==
    inv[i].pc = "ErrorShown" /\ inv[i].status # 0 /\ ~Is2xx(inv[i].status)
ParseFailure(i) ==
    inv[i].pc = "ErrorShown" /\ Is2xx(inv[i].status) /\ inv[i].body.t = "invalid"
Failure(i) == NetworkFailure(i) \/ StatusFailure(i) \/ ParseFailure(i)

(* C6: invocations that ended by a network failure, by a non-success       *)
(* status or by a body that is not JSON have all assigned the same content *)
(* to the results region, and the region holds it while one of them is the *)
(* last to have written.                                                   *)
C6_FailuresIndistinguishable ==
    \A i, j \in 1..Len(inv) :
       (Failure(i) /\ Failure(j))
          => /\ inv[i].shown = inv[j].shown
             /\ writer = i => results = inv[j].shown

\* two invocations have failed in different ways
C6_Witness ==
    \E i, j \in 1..Len(inv) :
       /\ writer = j
       /\ \/ NetworkFailure(i) /\ StatusFailure(j)
          \/ StatusFailure(i) /\ ParseFailure(j)
          \/ ParseFailure(i) /\ NetworkFailure(j)

\* the shape {items: array of {action, assignee, deadline}} of a response
IsActionItem(item) ==
    /\ item.t = "obj"
    /\ item.action.t = "str" /\ item.assignee.t = "str"
    /\ item.deadline.t = "str"

WellShaped(body) ==
    /\ body.t = "obj"
    /\ body.items.t = "arr"
    /\ \A k \in 1..Len(body.items.elems) : IsActionItem(body.items.elems[k])

(* C7: an invocation that received a success status and a body that is not *)
(* valid JSON or not of the shape {items: array of {action, assignee,      *)
(* deadline}} has ended in the error state, and the results region shows   *)
(* the fixed error message when it holds that invocation's assignment.     *)
C7_MalformedShowsError ==
    \A i \in 1..Len(inv) :
       (Settled(i) /\ Is2xx(inv[i].status) /\ ~WellShaped(inv[i].body))
          => /\ inv[i].pc = "ErrorShown"
             /\ writer = i => results = ErrorHtml

(* C8: a step that activates the control leaves the results region showing *)
(* the processing placeholder, the request it sends was handed to fetch    *)
(* with the placeholder already in place, and it is a step of no other     *)
(* invocation: none of them settles or receives a response in it.          *)
C8_PlaceholderBeforeRequest ==
    [][ Len(inv') > Len(inv)
        => /\ Len(inv') = Len(inv) + 1
           /\ results' = <<"<p>", "Processing...", "</p>">>
           /\ writer' = Len(inv')
           /\ inv'[Len(inv')].pc = "fetch"
           /\ inv'[Len(inv')].req.seen = <<"<p>", "Processing...", "</p>">>
           /\ sent' = sent + 1
           /\ console' = console
           /\ \A i \in 1..Len(inv) :
                 /\ inv'[i].pc = inv[i].pc
                 /\ inv'[i].status = inv[i].status
                 /\ inv'[i].body = inv[i].body
                 /\ inv'[i].shown = inv[i].shown ]_vars

\* the control has just been activated while an earlier invocation, whose
\* response has arrived, is still suspended
C8_Witness ==
    /\ Len(inv) = 2
    /\ writer = 2
    /\ inv[1].pc = "json"
    /\ inv[2].pc = "fetch"
    /\ results = ProcessingHtml
    /\ inv[2].req.seen = ProcessingHtml

(* C9: of two invocations that did not overlap any other and received the  *)
(* same response (status and body), the later one assigned to the results  *)
(* region exactly what the earlier one had assigned, and that is what the  *)
(* region holds once the later one has settled.                            *)
C9_SameResponseSameRegion ==
    \A i, j \in 1..Len(inv) :
       (/\ i < j /\ Settled(i) /\ Settled(j)
        /\ inv[i].alone /\ inv[j].alone
        /\ inv[i].status = inv[j].status /\ inv[i].body = inv[j].body)
          => /\ inv[j].shown = inv[i].shown
             /\ writer = j => results = inv[i].shown

\* the same table has been rendered twice in succession
C9_Witness ==
    /\ Len(inv) = 2
    /\ inv[1].pc = "Rendered" /\ inv[2].pc = "Rendered"
    /\ inv[1].alone /\ inv[2].alone
    /\ inv[1].body = BodyOf("obj", ItemsOf("arr", -1, <<ItemShip, ItemShip>>))
    /\ inv[2].body = inv[1].body
    /\ writer = 2

\* tokens that only the error message has
ErrorTokens == {ErrorHtml[1], ErrorHtml[2]}

(* C10: the control can be activated in every state (as long as the bound  *)
(* on activations allows one more), and when the results region holds the  *)
(* final assignment of an invocation that received a success status and a  *)
(* well-shaped body, with an earlier invocation in the error state, the    *)
(* region is the empty-state message or a table and holds nothing of the   *)
(* error message.                                                          *)
C10_ErrorNotFatal ==
    /\ Len(inv) < MaxClicks => ENABLED Click
    /\ \A i, j \in 1..Len(inv) :
          (/\ i < j /\ inv[i].pc = "ErrorShown"
           /\ writer = j /\ Is2xx(inv[j].status) /\ WellShaped(inv[j].body))
             => /\ inv[j].pc = "Rendered"
                /\ \/ results = EmptyHtml
                   \/ /\ results[1] = "<table>"
                      /\ results[Len(results)] = "</table>"
                      /\ Count(results, "<tr>") =
                            Len(inv[j].body.items.elems) + 1
                /\ \A k \in 1..Len(results) : results[k] \notin ErrorTokens

\* a table rendered after an invocation that ended in the error state
C10_Witness ==
    /\ Len(inv) = 2
    /\ inv[1].pc = "ErrorShown" /\ inv[1].alone
    /\ inv[2].pc = "Rendered" /\ inv[2].alone
    /\ inv[2].body = BodyOf("obj", ItemsOf("arr", -1, <<ItemShip>>))
    /\ writer = 2

\* a rendered result: the empty-state message or a table
IsRendering(html) ==
    \/ html = <<"<p>", "No action items found.", "</p>">>
    \/ Len(html) >= 2 /\ html[1] = "<table>" /\ html[Len(html)] = "</table>"

IsErrorMessage(html) ==
    html = <<"<p style='color:red;'>",
             "Cannot reach Flask server. Make sure it is running.", "</p>">>

(* C11: every invocation follows Idle -> Processing -> {Rendered |         *)
(* ErrorShown}.  It starts in Processing having written the placeholder    *)
(* (one write); it leaves Processing only for Rendered, with a rendered    *)
(* result as its second write, or for ErrorShown, with the error message   *)
(* as its second write; and once in Rendered or ErrorShown it neither      *)
(* changes state nor writes again.                                         *)
C11_InvocationStateMachine ==
    [][ \A i \in 1..Len(inv') :
          /\ inv'[i].pc \in {"fetch", "json"}
                => /\ inv'[i].writes = 1
                   /\ inv'[i].shown = <<"<p>", "Processing...", "</p>">>
          /\ inv'[i].pc = "Rendered"
                => inv'[i].writes = 2 /\ IsRendering(inv'[i].shown)
          /\ inv'[i].pc = "ErrorShown"
                => inv'[i].writes = 2 /\ IsErrorMessage(inv'[i].shown)
          /\ IF i > Len(inv)
             THEN inv'[i].pc = "fetch"
             ELSE /\ inv[i].pc = "fetch"
                        => inv'[i].pc \in {"fetch", "json", "ErrorShown"}
                  /\ inv[i].pc = "json"
                        => inv'[i].pc \in {"json", "Rendered", "ErrorShown"}
                  /\ Settled(i)
                        => /\ inv'[i].pc = inv[i].pc
                           /\ inv'[i].writes = inv[i].writes
                           /\ inv'[i].shown = inv[i].shown ]_vars

\* one invocation ended in Rendered with the empty-state message, another in
\* ErrorShown after its response had arrived
C11_Witness ==
    /\ Len(inv) = 2
    /\ inv[1].pc = "Rendered" /\ inv[1].shown = EmptyHtml
    /\ inv[1].writes = 2
    /\ inv[2].pc = "ErrorShown" /\ inv[2].err = "TypeError"
    /\ inv[2].writes = 2

(* C12: when the transport eventually settles every request, there is a    *)
(* point from which on every invocation that was ever started is in        *)
(* Rendered or ErrorShown (a settled invocation stays settled, so each one *)
(* eventually gets there) and the results region no longer shows the       *)
(* processing placeholder.                                                 *)
C12_EveryInvocationSettles ==
    <>[](/\ \A i \in 1..Len(inv) : Settled(i)
         /\ results # <<"<p>", "Processing...", "</p>">>)

\* every activation the bound allows has been made and has settled, one of
\* them after its response had arrived
C12_Witness ==
    /\ Len(inv) = MaxClicks
    /\ \A i \in 1..Len(inv) : Settled(i)
    /\ \E i \in 1..Len(inv) : inv[i].pc = "Rendered"
    /\ results # ProcessingHtml

\* invocation i settles in the step
Settles(i) == Suspended(i) /\ inv'[i].pc \in {"Rendered", "ErrorShown"}

(* C13: the step in which an invocation's response is handled overwrites   *)
(* the results region with that invocation's outcome, whether or not a     *)
(* later activation exists, and steps that neither activate nor settle     *)
(* leave the region alone; so once all invocations have settled the region *)
(* shows the outcome of the one handled last.                              *)
C13_LastHandledWins ==
    [][ /\ \A i \in 1..Len(inv) :
              Settles(i)
                 => /\ results' = inv'[i].shown
                    /\ writer' = i
                    /\ inv'[i].pc = "ErrorShown" => IsErrorMessage(results')
                    /\ inv'[i].pc = "Rendered" => IsRendering(results')
        /\ (Len(inv') = Len(inv) /\ \A i \in 1..Len(inv) : ~Settles(i))
              => results' = results /\ writer' = writer
        /\ (Len(inv') >= 1 /\ \A i \in 1..Len(inv') :
                                  inv'[i].pc \in {"Rendered", "ErrorShown"})
              => /\ writer' \in 1..Len(inv')
                 /\ results' = inv'[writer'].shown ]_vars

\* two overlapping invocations have settled, the earlier activation last:
\* the region shows the earlier one's table, not the later one's message
C13_Witness ==
    /\ Len(inv) = 2
    /\ ~inv[1].alone /\ ~inv[2].alone
    /\ inv[1].pc = "Rendered" /\ inv[2].pc = "Rendered"
    /\ inv[1].body = BodyOf("obj", ItemsOf("arr", -1, <<ItemShip>>))
    /\ inv[2].body = EmptyItemsBody
    /\ writer = 1
    /\ results = inv[1].shown
    /\ results # inv[2].shown

(* C14: re-entrancy is not guarded.  The control can be activated while    *)
(* earlier invocations are still suspended (as long as the bound on        *)
(* activations allows one more), and the request of an invocation that     *)
(* awaits its response stays in flight whatever is activated after it.     *)
C14_ReentrancyNotGuarded ==
    /\ (Len(inv) < MaxClicks /\ \E i \in 1..Len(inv) : Suspended(i))
          => ENABLED Click
    /\ \A i \in 1..Len(inv) :
          inv[i].pc = "fetch"
             => /\ inv[i].req # NoRequest
                /\ JsonDecode(inv[i].req.body).ok

\* as many requests are in flight at once as the bound allows activations
C14_Witness ==
    /\ Len(inv) = MaxClicks
    /\ Len(inv) >= 2
    /\ \A i \in 1..Len(inv) : inv[i].pc = "fetch" /\ inv[i].req # NoRequest

(* C15: a step of the handler never changes the text field; the log        *)
(* changes only in a step in which an invocation ends in ErrorShown, by    *)
(* the one entry for that invocation's error, so that it holds exactly one *)
(* entry per invocation in ErrorShown; a request is sent only in an        *)
(* activation step.                                                        *)
C15_Frame ==
    [][ /\ (inv' # inv \/ results' # results \/ console' # console
               \/ sent' # sent \/ writer' # writer)
              => notesField' = notesField
        /\ console' # console
              => \E i \in 1..Len(inv) :
                    /\ Settles(i)
                    /\ inv'[i].pc = "ErrorShown"
                    /\ console' = Append(console, inv'[i].err)
        /\ Len(console') =
              Cardinality({i \in 1..Len(inv') : inv'[i].pc = "ErrorShown"})
        /\ sent' # sent => Len(inv') = Len(inv) + 1 ]_vars

\* one invocation has ended in ErrorShown and one in Rendered, the text in
\* the field is still there, and the log holds the one error
C15_Witness ==
    /\ Len(inv) = 2
    /\ inv[1].pc = "ErrorShown" /\ inv[2].pc = "Rendered"
    /\ console = <<inv[1].err>>
    /\ notesField = <<BSLASH, "n", QUOTE, NEWLINE>>

(* C16: whenever the results region shows the processing placeholder, an   *)
(* invocation is still suspended (the one that wrote it); when none is     *)
(* suspended the region does not show the placeholder.                     *)
C16_PlaceholderImpliesOutstanding ==
    results = <<"<p>", "Processing...", "</p>">>
       => /\ writer \in 1..Len(inv)
          /\ Suspended(writer)

\* the placeholder of a second activation is shown over the settled result
\* of the first, the second invocation's response having arrived
C16_Witness ==
    /\ Len(inv) = 2
    /\ Settled(1)
    /\ inv[2].pc = "json"
    /\ results = ProcessingHtml

\* the converse of C16 fails: a settled result is shown while a later
\* invocation is still suspended
C16_ResultShownWhileOutstanding ==
    /\ Len(inv) = 2
    /\ inv[1].pc = "Rendered" /\ writer = 1
    /\ Suspended(2)
    /\ results = inv[1].shown
    /\ results # ProcessingHtml

====
